---- MODULE Spec2Model ----
(***************************************************************************)
(* Model of the OpenX open-redirect scanner core (src/core/scanner.py,     *)
(* src/core/utils.py): hostname normalisation, the redirect validator,     *)
(* the severity classifier, the four vector testers and scan_single_url.   *)
(*                                                                         *)
(* Strings are sequences of tokens.  A token is an indivisible run of      *)
(* characters: a scheme or host word, ":", "//", a port number, a path.    *)
(* urlparse, urljoin, lower(), strip() and startswith() are modelled on    *)
(* token sequences, so that parsing a formatted value is a real operation. *)
(***************************************************************************)
EXTENDS Integers, Sequences, FiniteSets, TLC

\* ------------------------------------------------------------------------
\* Python values
\* ------------------------------------------------------------------------

\* Python's None where a string is expected (distinct from every string).
None == <<"<None>">>

\* The empty string.
EmptyStr == <<>>

\* `not s` for a str-or-None value.
Falsy(s) == s = None \/ s = EmptyStr

\* ------------------------------------------------------------------------
\* Tokens
\* ------------------------------------------------------------------------

\* Words made only of scheme characters (letters, digits, "+", "-", ".")
\* that start with a letter: urlsplit accepts them before ":" as a scheme.
SchemeCharWords ==
    {"http", "https", "javascript", "JavaScript", "data", "vbscript", "mailto",
     "site.test", "Site.test", "evil.com", "Evil.com", "cb.test", "other.test",
     "example.com", "Example.com"}

\* Tokens made only of ASCII digits.
DigitWords == {"0", "80", "443", "8080", "8443"}

\* str.lower() on one token.
LowerTok(t) ==
    CASE t = "JavaScript" -> "javascript"
      [] t = "Evil.com"   -> "evil.com"
      [] t = "Site.test"  -> "site.test"
      [] t = "Example.com" -> "example.com"
      [] t = "/Home"      -> "/home"
      [] OTHER            -> t

\* str.lower()
Lower(s) == [i \in 1..Len(s) |-> LowerTok(s[i])]

\* int() of a digit token.
IntOf(t) ==
    CASE t = "80"   -> 80
      [] t = "443"  -> 443
      [] t = "8080" -> 8080
      [] t = "8443" -> 8443
      [] OTHER      -> 0

\* Tokens that begin with one of the delimiters "/", "?", "#" that end a netloc.
\* Those other than "?" begin with "/".
PathTokens == {"//", "/", "/home", "/Home", "/x", "/login", "?"}

\* Whitespace token.
WS == " "

RECURSIVE LStrip(_)
LStrip(s) == IF s # <<>> /\ Head(s) = WS THEN LStrip(Tail(s)) ELSE s

RECURSIVE RStrip(_)
RStrip(s) == IF s # <<>> /\ s[Len(s)] = WS THEN RStrip(SubSeq(s, 1, Len(s) - 1)) ELSE s

\* str.strip()
Strip(s) == RStrip(LStrip(s))

\* s.startswith(prefix)
StartsWith(s, prefix) ==
    Len(s) >= Len(prefix) /\ SubSeq(s, 1, Len(prefix)) = prefix

\* s.startswith(('javascript:', 'data:', 'vbscript:')): case-sensitive.
StartsWithScriptScheme(s) ==
    \/ StartsWith(s, <<"javascript", ":">>)
    \/ StartsWith(s, <<"data", ":">>)
    \/ StartsWith(s, <<"vbscript", ":">>)

\* ------------------------------------------------------------------------
\* urllib.parse
\* ------------------------------------------------------------------------

\* Index of the first occurrence of token t in s, 0 when absent (str.find).
RECURSIVE FindFrom(_, _, _)
FindFrom(s, t, i) ==
    IF i > Len(s) THEN 0
    ELSE IF s[i] = t THEN i
    ELSE FindFrom(s, t, i + 1)

Find(s, t) == FindFrom(s, t, 1)

\* Index of the first token at or after i that starts a path, query or
\* fragment; Len(s) + 1 when there is none.
RECURSIVE NetlocEnd(_, _)
NetlocEnd(s, i) ==
    IF i > Len(s) THEN Len(s) + 1
    ELSE IF s[i] \in PathTokens THEN i
    ELSE NetlocEnd(s, i + 1)

\* urlparse(url): scheme (lowercased), netloc (as written), path and query;
\* leading whitespace is dropped first.
urlparse(url) ==
    LET s         == LStrip(url)
        colon     == Find(s, ":")
        hasScheme == colon = 2 /\ s[1] \in SchemeCharWords
        scheme    == IF hasScheme THEN <<LowerTok(s[1])>> ELSE <<>>
        rest      == IF hasScheme THEN SubSeq(s, 3, Len(s)) ELSE s
        hasNetloc == Len(rest) >= 1 /\ rest[1] = "//"
        stop      == IF hasNetloc THEN NetlocEnd(rest, 2) ELSE 1
        netloc    == IF hasNetloc THEN SubSeq(rest, 2, stop - 1) ELSE <<>>
        tail      == IF hasNetloc THEN SubSeq(rest, stop, Len(rest)) ELSE rest
        q         == Find(tail, "?")
        path      == IF q = 0 THEN tail ELSE SubSeq(tail, 1, q - 1)
        query     == IF q = 0 THEN <<>> ELSE SubSeq(tail, q + 1, Len(tail))
    IN  [scheme |-> scheme, netloc |-> netloc, path |-> path, query |-> query]

\* The part of a netloc before the first ":" and the part after it.
HostPart(netloc) ==
    LET c == Find(netloc, ":")
    IN  IF c = 0 THEN netloc ELSE SubSeq(netloc, 1, c - 1)

PortPart(netloc) ==
    LET c == Find(netloc, ":")
    IN  IF c = 0 THEN <<>> ELSE SubSeq(netloc, c + 1, Len(netloc))

\* ParseResult.hostname: lowercased host, None when empty.
hostname(p) ==
    IF HostPart(p.netloc) = <<>> THEN None ELSE Lower(HostPart(p.netloc))

\* ParseResult.port raises ValueError when the port is not a number.
PortRaises(p) ==
    LET pp == PortPart(p.netloc)
    IN  pp # <<>> /\ ~(Len(pp) = 1 /\ pp[1] \in DigitWords)

\* ParseResult.port: the number, 0 standing for None (both are falsy).
port(p) ==
    LET pp == PortPart(p.netloc)
    IN  IF pp = <<>> THEN 0 ELSE IntOf(pp[1])

\* urlunparse((scheme, netloc, path, '', query, ''))
urlunparse(scheme, netloc, path, query) ==
    (IF scheme = <<>> THEN <<>> ELSE scheme \o <<":">>)
    \o (IF netloc = <<>> THEN <<>> ELSE <<"//">> \o netloc)
    \o path
    \o (IF query = <<>> THEN <<>> ELSE <<"?">> \o query)

\* Schemes of urllib.parse.uses_relative that occur here ('' included).
UsesRelative == {<<>>, <<"http">>, <<"https">>}

\* urljoin(base, url)
urljoin(base, url) ==
    LET Join(b, u, scheme) ==
            IF scheme # b.scheme \/ scheme \notin UsesRelative THEN url
            ELSE IF u.netloc # <<>> THEN urlunparse(scheme, u.netloc, u.path, u.query)
            ELSE IF u.path = <<>> THEN
                urlunparse(scheme, b.netloc, b.path,
                           IF u.query = <<>> THEN b.query ELSE u.query)
            ELSE IF u.path[1] \in PathTokens
            THEN urlunparse(scheme, b.netloc, u.path, u.query)
            ELSE urlunparse(scheme, b.netloc, <<"/">> \o u.path, u.query)
        Parsed(b, u) == Join(b, u, IF u.scheme = <<>> THEN b.scheme ELSE u.scheme)
    IN  IF base = <<>> THEN url
        ELSE IF url = <<>> THEN base
        ELSE Parsed(urlparse(base), urlparse(url))

\* urllib.parse.quote of one token inside a query value.
QuoteTok(t) ==
    CASE t = "//" -> "%2F%2F"
      [] t = ":"  -> "%3A"
      [] t = "/"  -> "%2F"
      [] t = "/home" -> "%2Fhome"
      [] t = "/Home" -> "%2FHome"
      [] t = "/x" -> "%2Fx"
      [] t = "/login" -> "%2Flogin"
      [] t = "?"  -> "%3F"
      [] t = "="  -> "%3D"
      [] t = "alert(1)"    -> "alert%281%29"
      [] t = "msgbox(1)"   -> "msgbox%281%29"
      [] t = "text/html,x" -> "text%2Fhtml%2Cx"
      [] t = WS   -> "+"
      [] OTHER    -> t

\* urlencode of one value
Quote(s) == [i \in 1..Len(s) |-> QuoteTok(s[i])]

\* ------------------------------------------------------------------------
\* src/core/utils.py
\* ------------------------------------------------------------------------

\* get_normalized_hostname_util(url_str): normalized host, None for no host.
get_normalized_hostname_util(url_str) ==
    IF Falsy(url_str) THEN None
    ELSE LET Normalized(parsed_url, host) ==
                 IF host = None THEN None
                 ELSE IF PortRaises(parsed_url) THEN None
                 ELSE IF \/ (parsed_url.scheme = <<"http">> /\ port(parsed_url) = 80)
                         \/ (parsed_url.scheme = <<"https">> /\ port(parsed_url) = 443)
                      THEN host
                 ELSE IF port(parsed_url) # 0 THEN Lower(parsed_url.netloc)
                 ELSE host
             WithParsed(parsed_url) == Normalized(parsed_url, hostname(parsed_url))
         IN  WithParsed(urlparse(url_str))

\* validate_redirect without the comparison against the original host.
validate_redirect_no_self_guard(original_url_str, final_redirect_location_str, payload_value_str, callback_url) ==
    IF final_redirect_location_str = None THEN FALSE
    ELSE LET Decide(final, original_hostname, redirect_hostname,
                    payload_hostname, callback_hostname) ==
             IF final = EmptyStr THEN FALSE
             ELSE IF StartsWithScriptScheme(final) THEN TRUE
             ELSE IF redirect_hostname = None THEN FALSE
             ELSE IF ~Falsy(callback_url) THEN
                  /\ callback_hostname # None
                  /\ redirect_hostname = callback_hostname
                  /\ original_hostname # callback_hostname
             ELSE IF payload_hostname = None THEN FALSE
             ELSE redirect_hostname = payload_hostname
         IN  Decide(Strip(final_redirect_location_str),
                    get_normalized_hostname_util(original_url_str),
                    get_normalized_hostname_util(Strip(final_redirect_location_str)),
                    get_normalized_hostname_util(payload_value_str),
                    get_normalized_hostname_util(callback_url))

\* validate_redirect that goes on to the payload check when the callback
\* host does not match.
validate_redirect_callback_fallthrough(original_url_str, final_redirect_location_str, payload_value_str, callback_url) ==
    IF final_redirect_location_str = None THEN FALSE
    ELSE LET Decide(final, original_hostname, redirect_hostname,
                    payload_hostname, callback_hostname) ==
             IF final = EmptyStr THEN FALSE
             ELSE IF StartsWithScriptScheme(final) THEN TRUE
             ELSE IF redirect_hostname = None THEN FALSE
             ELSE IF /\ ~Falsy(callback_url)
                     /\ callback_hostname # None
                     /\ redirect_hostname = callback_hostname
                     /\ original_hostname # callback_hostname
                  THEN TRUE
             ELSE IF payload_hostname = None THEN FALSE
             ELSE /\ redirect_hostname = payload_hostname
                  /\ original_hostname # payload_hostname
         IN  Decide(Strip(final_redirect_location_str),
                    get_normalized_hostname_util(original_url_str),
                    get_normalized_hostname_util(Strip(final_redirect_location_str)),
                    get_normalized_hostname_util(payload_value_str),
                    get_normalized_hostname_util(callback_url))

\* validate_redirect(original_url_str, final_redirect_location_str,
\*                   payload_value_str, callback_url); a None terminal makes
\* .strip() raise, which the outer except turns into False.
validate_redirect(original_url_str, final_redirect_location_str, payload_value_str, callback_url) ==
    IF final_redirect_location_str = None THEN FALSE
    ELSE LET Decide(final, original_hostname, redirect_hostname,
                    payload_hostname, callback_hostname) ==
             IF final = EmptyStr THEN FALSE
             ELSE IF StartsWithScriptScheme(final) THEN TRUE
             ELSE IF redirect_hostname = None THEN FALSE
             ELSE IF ~Falsy(callback_url) THEN
                  /\ callback_hostname # None
                  /\ redirect_hostname = callback_hostname
                  /\ original_hostname # callback_hostname
             ELSE IF payload_hostname = None THEN FALSE
             ELSE /\ redirect_hostname = payload_hostname
                  /\ original_hostname # payload_hostname
         IN  Decide(Strip(final_redirect_location_str),
                    get_normalized_hostname_util(original_url_str),
                    get_normalized_hostname_util(Strip(final_redirect_location_str)),
                    get_normalized_hostname_util(payload_value_str),
                    get_normalized_hostname_util(callback_url))

\* extract_redirect_params: the vocabulary of redirect parameter names.
common_redirect_params ==
    <<"url", "redirect", "return", "callback", "next", "target", "goto", "link",
      "forward", "continue", "destination", "redir", "location", "site",
      "returnUrl", "returnURL", "redirect_uri", "redirectUrl", "redirectURL",
      "returnTo", "return_to", "backUrl", "back_url", "successUrl", "success_url">>

\* str.lower() of a parameter name.
LowerName(n) ==
    CASE n = "Next"        -> "next"
      [] n = "returnUrl"   -> "returnurl"
      [] n = "returnURL"   -> "returnurl"
      [] n = "redirectUrl" -> "redirecturl"
      [] n = "redirectURL" -> "redirecturl"
      [] n = "returnTo"    -> "returnto"
      [] n = "backUrl"     -> "backurl"
      [] n = "successUrl"  -> "successurl"
      [] OTHER             -> n

\* Names of the parameters of a query string "name=value&name=value",
\* in order of first occurrence (the keys of parse_qs; a pair whose value
\* is blank is dropped by parse_qs).
RECURSIVE QueryNames(_)
QueryNames(query) ==
    IF query = <<>> THEN <<>>
    ELSE LET amp  == Find(query, "&")
             pair == IF amp = 0 THEN query ELSE SubSeq(query, 1, amp - 1)
             rest == IF amp = 0 THEN <<>> ELSE SubSeq(query, amp + 1, Len(query))
             tl   == QueryNames(rest)
             keep == Len(pair) >= 3 /\ pair[2] = "="
         IN  IF keep /\ \A i \in 1..Len(tl) : tl[i] # pair[1]
             THEN <<pair[1]>> \o tl
             ELSE tl

\* urlparse(url) raises ValueError ("Invalid IPv6 URL"): the netloc has a
\* "[" without a "]".  extract_redirect_params catches it.
UrlparseRaises(url) ==
    Find(urlparse(url).netloc, "[") # 0 /\ Find(urlparse(url).netloc, "]") = 0

\* extract_redirect_params that returns the names it found even when it
\* found none.
extract_redirect_params_no_default(url) ==
    LET vocab == {LowerName(common_redirect_params[i]) :
                    i \in 1..Len(common_redirect_params)}
        InVocabulary(n) == LowerName(n) \in vocab
    IN  SelectSeq(QueryNames(urlparse(url).query), InVocabulary)

\* extract_redirect_params(url)
extract_redirect_params(url) ==
    LET vocab == {LowerName(common_redirect_params[i]) :
                    i \in 1..Len(common_redirect_params)}
        InVocabulary(n) == LowerName(n) \in vocab
        Found(potential) ==
            IF potential = <<>> THEN SubSeq(common_redirect_params, 1, 10)
            ELSE potential
    IN  IF UrlparseRaises(url) THEN SubSeq(common_redirect_params, 1, 10)
        ELSE Found(SelectSeq(QueryNames(urlparse(url).query), InVocabulary))

\* ------------------------------------------------------------------------
\* src/core/scanner.py: exploit check and severity
\* ------------------------------------------------------------------------

\* A ValueError raised inside a helper.
ValueErr == <<"<ValueError>">>

\* get_normalized_hostname nested in _is_external_redirect: no guard on an
\* empty argument, and a bad port raises instead of giving None.
get_normalized_hostname(url_str) ==
    LET Normalized(parsed_url, host) ==
            IF host = None THEN None
            ELSE IF PortRaises(parsed_url) THEN ValueErr
            ELSE IF \/ (parsed_url.scheme = <<"http">> /\ port(parsed_url) = 80)
                    \/ (parsed_url.scheme = <<"https">> /\ port(parsed_url) = 443)
                 THEN host
            ELSE IF port(parsed_url) # 0 THEN Lower(parsed_url.netloc)
            ELSE host
        WithParsed(parsed_url) == Normalized(parsed_url, hostname(parsed_url))
    IN  WithParsed(urlparse(IF url_str = None THEN EmptyStr ELSE url_str))

\* _is_external_redirect without its test for a redirect to the original's
\* own host.
is_external_redirect_no_self_guard(original_url_str, final_redirect_location_str, payload_value_str) ==
    LET Decide(original_hostname, redirect_hostname, payload_hostname) ==
            IF ValueErr \in {original_hostname, redirect_hostname, payload_hostname}
            THEN FALSE
            ELSE IF redirect_hostname = None THEN FALSE
            ELSE payload_hostname # None /\ redirect_hostname = payload_hostname
    IN  Decide(get_normalized_hostname(original_url_str),
               get_normalized_hostname(final_redirect_location_str),
               get_normalized_hostname(payload_value_str))

\* _is_external_redirect(original_url_str, final_redirect_location_str,
\*                       payload_value_str)
is_external_redirect(original_url_str, final_redirect_location_str, payload_value_str) ==
    LET Decide(original_hostname, redirect_hostname, payload_hostname) ==
            IF ValueErr \in {original_hostname, redirect_hostname, payload_hostname}
            THEN FALSE
            ELSE IF redirect_hostname = None THEN FALSE
            ELSE IF original_hostname # None /\ original_hostname = redirect_hostname
            THEN FALSE
            ELSE payload_hostname # None /\ redirect_hostname = payload_hostname
    IN  Decide(get_normalized_hostname(original_url_str),
               get_normalized_hostname(final_redirect_location_str),
               get_normalized_hostname(payload_value_str))

\* The value of a raised AttributeError (None has no startswith).
AttributeErr == "<AttributeError>"

\* _determine_severity without its first test, the one for script URIs.
determine_severity_no_script_rule(original_url_str, payload_value_str, final_redirect_location_str) ==
    LET final == final_redirect_location_str
        Internal(original_netloc, redirect_netloc) ==
            IF original_netloc # <<>> /\ redirect_netloc # <<>>
            THEN IF original_netloc # redirect_netloc THEN "Medium" ELSE "Low"
            ELSE IF redirect_netloc # <<>> THEN "Medium"
            ELSE "Low"
    IN  IF final = None THEN AttributeErr
        ELSE IF is_external_redirect(original_url_str, final, payload_value_str)
        THEN "High"
        ELSE IF \/ StartsWith(final, <<"http", ":", "//">>)
                \/ StartsWith(final, <<"https", ":", "//">>)
                \/ StartsWith(final, <<"//">>)
        THEN Internal(Lower(urlparse(original_url_str).netloc),
                      Lower(urlparse(final).netloc))
        ELSE "Low"

\* _determine_severity(original_url_str, payload_value_str,
\*                     final_redirect_location_str)
determine_severity(original_url_str, payload_value_str, final_redirect_location_str) ==
    LET final == final_redirect_location_str
        Internal(original_netloc, redirect_netloc) ==
            IF original_netloc # <<>> /\ redirect_netloc # <<>>
            THEN IF original_netloc # redirect_netloc THEN "Medium" ELSE "Low"
            ELSE IF redirect_netloc # <<>> THEN "Medium"
            ELSE "Low"
    IN  IF final = None THEN AttributeErr
        ELSE IF StartsWithScriptScheme(final) THEN "High"
        ELSE IF is_external_redirect(original_url_str, final, payload_value_str)
        THEN "High"
        ELSE IF \/ StartsWith(final, <<"http", ":", "//">>)
                \/ StartsWith(final, <<"https", ":", "//">>)
                \/ StartsWith(final, <<"//">>)
        THEN Internal(Lower(urlparse(original_url_str).netloc),
                      Lower(urlparse(final).netloc))
        ELSE "Low"

\* ------------------------------------------------------------------------
\* State
\* ------------------------------------------------------------------------

VARIABLES
    call,               \* one call of a pure function: its arguments and its result
    config,             \* self.config: fast, headers_test, callback_url, follow_redirects
    url,                \* the target given to scan_single_url
    all_payloads,       \* payload_manager.get_payloads()
    header_payloads_all,\* payload_manager.get_header_payloads()
    pc,                 \* position of scan_single_url
    pi,                 \* index of the parameter, header or cookie name being tested
    pj,                 \* index of the payload being tested
    results,            \* the list scan_single_url builds and returns
    url_vulnerable_flag,
    cookie_results,     \* the list test_cookie_redirects builds
    total_requests,     \* self.total_requests
    tr,                 \* locals of the tester call in progress, or of the last one
    pool                \* results_lock and the workers that share the scanner

vars == <<call, config, url, all_payloads, header_payloads_all, pc, pi, pj,
          results, url_vulnerable_flag, cookie_results, total_requests, tr, pool>>

scanVars == <<config, url, all_payloads, header_payloads_all, pc, pi, pj,
              results, url_vulnerable_flag, cookie_results, total_requests, tr, pool>>

\* ------------------------------------------------------------------------
\* Strings used as inputs
\* ------------------------------------------------------------------------

S_target      == <<"http", ":", "//", "site.test", "/login", "?", "next", "=", "/home">>
S_targetTls   == <<"https", ":", "//", "site.test", "/login", "?", "next", "=", "/home">>
S_evilRel     == <<"//", "evil.com">>
S_evilRel80   == <<"//", "evil.com", ":", "80">>
S_evilHttp    == <<"http", ":", "//", "evil.com">>
S_evilUpper   == <<"http", ":", "//", "Evil.com", ":", "80", "/x">>
S_evil8080    == <<"http", ":", "//", "evil.com", ":", "8080">>
S_evilBare    == <<"evil.com">>
S_js          == <<"javascript", ":", "alert(1)">>
S_jsUpper     == <<"JavaScript", ":", "alert(1)">>
S_data        == <<"data", ":", "text/html,x">>
S_vbs         == <<"vbscript", ":", "msgbox(1)">>
S_home        == <<"/home">>
S_siteHome    == <<"http", ":", "//", "site.test", "/home">>
S_other       == <<"http", ":", "//", "other.test">>
S_cb          == <<"http", ":", "//", "cb.test">>
S_cbRel       == <<"//", "cb.test">>
S_cbBare      == <<"cb.test">>
S_blank       == <<WS>>
S_target80    == <<"http", ":", "//", "site.test", ":", "80", "/login">>
S_siteUpper   == <<"http", ":", "//", "Site.test", "/home">>
S_mailto      == <<"mailto", ":", "x">>
S_noNetloc    == <<"http", ":", "//", "/x">>
S_evilBadPort == <<"http", ":", "//", "evil.com", ":", "80", WS>>

\* ------------------------------------------------------------------------
\* The HTTP client
\* ------------------------------------------------------------------------

RedirectStatus == {301, 302, 303, 307, 308}

\* A response body, as far as the scanner looks at it: whether it has a
\* "<form" tag, the url of its meta refresh tag, and the string captured
\* by the first script-redirect pattern that matches (None when absent).
Body(form, meta, js) == [form |-> form, meta |-> meta, js |-> js]

NoBody == Body(FALSE, None, None)

\* What the client does with one request: a transport error, or a response
\* with a status, a Location header ('' when absent) and a body.
Response(err, status, location, body) ==
    [err |-> err, status |-> status, location |-> location, body |-> body]

Timeout         == Response("timeout", 0, EmptyStr, NoBody)
ConnectionError == Response("connection", 0, EmptyStr, NoBody)

\* What make_request hands back for every RequestException.
NoResponse      == Response("none", 0, EmptyStr, NoBody)

\* Locations the server may send.
Locations == {S_evilRel, S_evilRel80}

\* Bodies the server may send.
Bodies == {NoBody, Body(TRUE, None, None), Body(FALSE, S_cbRel, None),
           Body(FALSE, S_evilRel, None),
           Body(FALSE, None, S_cbRel), Body(FALSE, None, S_js)}

Responses ==
    {Timeout, ConnectionError}
    \cup {Response("none", 404, EmptyStr, NoBody)}
    \cup {Response("none", 200, EmptyStr, b) : b \in Bodies}
    \cup {Response("none", 302, l, NoBody) : l \in Locations \cup {EmptyStr}}

\* requests refuses a URL without an http(s) scheme or without a host
\* (MissingSchema, InvalidSchema, InvalidURL are RequestExceptions).
Requestable(u) ==
    LET Sendable(p) == p.scheme \in {<<"http">>, <<"https">>} /\ hostname(p) # None
    IN  Sendable(urlparse(u))

\* make_request(url, ...): the response, or NoResponse after an exception.
\* The counter is incremented by the caller's action.
make_request(u, r) ==
    IF ~Requestable(u) \/ r.err # "none" THEN NoResponse ELSE r

\* `if response:`; a requests.Response is falsy when its status is 4xx/5xx.
Truthy(resp) == resp # NoResponse /\ resp.status < 400

\* Why the answer r to a request for u is not a usable response.
WhyFalsy(u, r) ==
    IF ~Requestable(u) THEN "invalid_url"
    ELSE IF r.err # "none" THEN r.err
    ELSE "status"

\* ------------------------------------------------------------------------
\* Results
\* ------------------------------------------------------------------------

\* A result dict.  Keys a dict lacks hold None ("absent" for severity);
\* response_headers is the ordinal of the response whose headers are
\* reported (0: the answer to the first request of the call).
Result(vulnerable, method, point, payload, status_code, final_location, redirect_chain, response_headers) ==
    [vulnerable |-> vulnerable, method |-> method, point |-> point,
     payload |-> payload, status_code |-> status_code,
     final_location |-> final_location, redirect_chain |-> redirect_chain,
     response_headers |-> response_headers, severity |-> "absent"]

\* A tester returning None.
NoResult == Result(FALSE, "<None>", "", EmptyStr, 0, None, <<>>, -1)

\* Locals of a call of the tester fn; returned is set when the call has
\* handed its result back to scan_single_url, verified tells how the
\* request that verifies a meta refresh or script candidate ended.
Locals(fn, test_url, point, payload) ==
    [fn |-> fn, returned |-> FALSE,
     test_url |-> test_url, point |-> point, payload |-> payload,
     status_code |-> 0, redirect_chain |-> <<>>, final_location |-> None,
     cur |-> EmptyStr, base |-> EmptyStr, count |-> 0, hdr |-> 0,
     pending |-> EmptyStr, match |-> EmptyStr, js |-> None,
     nreq |-> 0, locs |-> <<>>, stop |-> "none", verified |-> "none",
     ret |-> NoResult]

NoLocals == Locals("none", EmptyStr, "", EmptyStr)

\* results_lock is free and no worker pool is running.
NoPool == [lock |-> 0, attempts |-> 0, worker |-> <<>>]

\* The scanner is not running (specifications about pure functions).
ScanIdle ==
    /\ config = [fast |-> FALSE, headers_test |-> FALSE, callback_url |-> None,
                 follow_redirects |-> 0]
    /\ url = EmptyStr
    /\ all_payloads = <<>>
    /\ header_payloads_all = <<>>
    /\ pc = "idle"
    /\ pi = 0
    /\ pj = 0
    /\ results = <<>>
    /\ url_vulnerable_flag = FALSE
    /\ cookie_results = <<>>
    /\ total_requests = 0
    /\ tr = NoLocals
    /\ pool = NoPool

\* ------------------------------------------------------------------------
\* scan_single_url: configuration and loops
\* ------------------------------------------------------------------------

\* Largest follow_redirects configured.
MaxHops == 2

\* Payload lists the Payload Source may return.
PayloadLists == {<<S_evilRel>>, <<S_evilRel80>>}

HeaderPayloadLists == {<<S_evilHttp>>}

Min(a, b) == IF a < b THEN a ELSE b

\* lst[:n]
Prefix(lst, n) == SubSeq(lst, 1, Min(n, Len(lst)))

\* redirect_params of scan_single_url (the 40-name list replaces an empty one).
redirect_params ==
    LET Params(extracted) ==
        IF extracted = <<>>
        THEN <<"url", "redirect", "return", "callback", "next", "target", "goto",
               "link", "destination", "forward", "continue", "redirect_url",
               "redirect_uri", "returnUrl", "returnURL", "return_url", "backUrl",
               "back_url", "successUrl", "success_url", "failureUrl", "failure_url",
               "redirectTo", "redirect_to", "site", "domain", "host", "location",
               "path", "page", "ref", "referer", "source", "from", "origin", "redir",
               "exit", "out", "away", "external">>
        ELSE extracted
    IN  Params(extract_redirect_params(url))

effective_payloads_param ==
    IF config.fast THEN Prefix(all_payloads, 3) ELSE all_payloads

effective_payloads_header ==
    IF config.fast THEN Prefix(header_payloads_all, 3) ELSE header_payloads_all

\* header_names of scan_single_url: the first name of the list (the loop
\* body is the same for every name).
header_names == <<"Host">>

\* cookie_names of test_cookie_redirects: the first name of the list (the
\* loop body is the same for every name).
cookie_names == <<"redirect_url">>

\* test_payloads of test_form_redirects and test_cookie_redirects.
test_payloads ==
    IF config.fast THEN <<S_evilHttp, S_evilRel>>
    ELSE <<S_evilHttp, S_evilRel, S_js>>

\* result['severity'] as scan_single_url sets it on a vulnerable result:
\* an exception of _determine_severity gives the sentinel.
SeverityFor(res) ==
    LET Caught(severity) ==
            IF severity = AttributeErr THEN "ErrorDeterminingSeverity" ELSE severity
    IN  Caught(determine_severity(url, res.payload, res.final_location))

\* Leaving the header loop: on to test_form_redirects.
EnterForm ==
    /\ pc' = "form"
    /\ pi' = 1
    /\ pj' = 1

\* Leaving the parameter loop for the header loop whatever headers_test says.
EnterHeaders_Always ==
    IF effective_payloads_header # <<>>
    THEN pc' = "header" /\ pi' = 1 /\ pj' = 1
    ELSE EnterForm

\* Leaving the parameter loop.
EnterHeaders ==
    IF config.headers_test /\ effective_payloads_header # <<>>
    THEN pc' = "header" /\ pi' = 1 /\ pj' = 1
    ELSE EnterForm

\* Next iteration of the parameter loops (flag is the new url_vulnerable_flag).
NextParam(flag) ==
    IF pj < Len(effective_payloads_param)
    THEN pc' = "param" /\ pi' = pi /\ pj' = pj + 1
    ELSE IF pi < Len(redirect_params) /\ ~(flag /\ config.fast)
    THEN pc' = "param" /\ pi' = pi + 1 /\ pj' = 1
    ELSE EnterHeaders

\* The body of the parameter loop without the return of fast mode.
ParamReturn_NoFastReturn(result, t) ==
    \E res \in {result} :
    /\ tr' = [t EXCEPT !.ret = res, !.returned = TRUE]
    /\ results' =
          IF res = NoResult THEN results
          ELSE IF res.vulnerable
          THEN Append(results, [res EXCEPT !.severity = SeverityFor(res)])
          ELSE Append(results, res)
    /\ \E flag \in {url_vulnerable_flag \/ (res # NoResult /\ res.vulnerable)} :
        /\ url_vulnerable_flag' = flag
        /\ NextParam(flag)

\* test_url_parameter returned res, its locals being t: the body of the
\* parameter loop of scan_single_url.
ParamReturn(result, t) ==
    \E res \in {result} :
    /\ tr' = [t EXCEPT !.ret = res, !.returned = TRUE]
    /\ results' =
          IF res = NoResult THEN results
          ELSE IF res.vulnerable
          THEN Append(results, [res EXCEPT !.severity = SeverityFor(res)])
          ELSE Append(results, res)
    /\ \E flag \in {url_vulnerable_flag \/ (res # NoResult /\ res.vulnerable)} :
        /\ url_vulnerable_flag' = flag
        /\ IF res # NoResult /\ res.vulnerable /\ config.fast
           THEN pc' = "done" /\ pi' = pi /\ pj' = pj
           ELSE NextParam(flag)

\* ------------------------------------------------------------------------
\* test_url_parameter
\* ------------------------------------------------------------------------

\* urlencode of the parsed query with param's value replaced by the payload.
RECURSIVE ReplaceParam(_, _, _)
ReplaceParam(query, param, payload) ==
    IF query = <<>> THEN <<>>
    ELSE LET amp  == Find(query, "&")
             pair == IF amp = 0 THEN query ELSE SubSeq(query, 1, amp - 1)
             rest == IF amp = 0 THEN <<>> ELSE SubSeq(query, amp + 1, Len(query))
             enc  == IF Len(pair) >= 3 /\ pair[2] = "="
                     THEN IF pair[1] = param
                          THEN <<param, "=">> \o Quote(payload)
                          ELSE <<pair[1], "=">> \o Quote(SubSeq(pair, 3, Len(pair)))
                     ELSE <<>>
             tl   == ReplaceParam(rest, param, payload)
         IN  IF enc = <<>> THEN tl
             ELSE IF tl = <<>> THEN enc
             ELSE enc \o <<"&">> \o tl

\* test_url: the target with query_params[param] = [payload].
TestUrl(target, param, payload) ==
    LET new_query(names, replaced) ==
            IF \E i \in 1..Len(names) : names[i] = param THEN replaced
            ELSE IF replaced = <<>> THEN <<param, "=">> \o Quote(payload)
            ELSE replaced \o <<"&", param, "=">> \o Quote(payload)
        Rebuilt(parsed) ==
            urlunparse(parsed.scheme, parsed.netloc, parsed.path,
                       new_query(QueryNames(parsed.query),
                                 ReplaceParam(parsed.query, param, payload)))
    IN  Rebuilt(urlparse(target))

\* s.startswith('/')
StartsWithSlash(s) == s # <<>> /\ s[1] \in PathTokens \ {"?"}

\* f"{parsed.scheme}://{parsed.netloc}{redirect_url}" for a candidate that
\* starts with "/", the candidate itself otherwise.
FullRedirectUrl(target, candidate) ==
    LET Absolute(parsed) == parsed.scheme \o <<":", "//">> \o parsed.netloc \o candidate
    IN  IF StartsWithSlash(candidate) THEN Absolute(urlparse(target)) ELSE candidate

\* A non-vulnerable result dict that is given a severity.
NonVulnerableParam_WithSeverity(t) ==
    [Result(FALSE, "", t.point, t.payload, t.status_code, None, <<>>, -1)
        EXCEPT !.severity = "Low"]

\* The non-vulnerable result dict of test_url_parameter.
NonVulnerableParam(t) ==
    Result(FALSE, "", t.point, t.payload, t.status_code, None, <<>>, -1)

\* A loop that goes on for as long as the server redirects.
LoopContinues_Unbounded(redirect_count) == redirect_count >= 0

\* The loop condition letting one more iteration through.
LoopContinues_OneMore(redirect_count) == redirect_count <= config.follow_redirects

\* `while redirect_count < max_redirects`
LoopContinues(redirect_count) == redirect_count < config.follow_redirects

\* The end of an iteration that records the Location but leaves the
\* terminal at the location just requested.
RecordHop_KeepsTerminal(t, next_location_header, absolute_url_to_follow) ==
    [t EXCEPT !.redirect_chain = Append(t.redirect_chain, next_location_header),
              !.cur = next_location_header,
              !.final_location = t.cur,
              !.hdr = t.nreq - 1,
              !.base = absolute_url_to_follow,
              !.count = t.count + 1,
              !.locs = Append(t.locs, next_location_header)]

\* The end of an iteration that leaves the base for relative Locations at
\* the injected URL.
RecordHop_KeepsBase(t, next_location_header, absolute_url_to_follow) ==
    [t EXCEPT !.redirect_chain = Append(t.redirect_chain, next_location_header),
              !.cur = next_location_header,
              !.final_location = next_location_header,
              !.hdr = t.nreq - 1,
              !.count = t.count + 1,
              !.locs = Append(t.locs, next_location_header)]

\* The end of a loop iteration whose answer is a redirect with a Location:
\* the Location joins the chain and becomes the terminal.
RecordHop(t, next_location_header, absolute_url_to_follow) ==
    [t EXCEPT !.redirect_chain = Append(t.redirect_chain, next_location_header),
              !.cur = next_location_header,
              !.final_location = next_location_header,
              !.hdr = t.nreq - 1,
              !.base = absolute_url_to_follow,
              !.count = t.count + 1,
              !.locs = Append(t.locs, next_location_header)]

\* An iteration that drops the terminal when the follow-up request fails.
AfterFollow_FailureClearsTerminal(t, absolute_url_to_follow, follow_response, why) ==
    IF ~Truthy(follow_response)
    THEN [t EXCEPT !.final_location = None, !.stop = why]
    ELSE IF follow_response.status \notin RedirectStatus
    THEN [t EXCEPT !.final_location = absolute_url_to_follow, !.stop = "landed"]
    ELSE IF follow_response.location = EmptyStr
    THEN [t EXCEPT !.final_location = absolute_url_to_follow, !.stop = "no_location"]
    ELSE IF LoopContinues(t.count + 1)
    THEN RecordHop(t, follow_response.location, absolute_url_to_follow)
    ELSE [RecordHop(t, follow_response.location, absolute_url_to_follow)
            EXCEPT !.stop = "bound"]

\* One iteration of the loop on the answer to the follow-up request, t
\* being the locals once the request is counted; why tells what made a
\* falsy answer falsy.  stop stays "none" when the loop goes round again.
AfterFollow(t, absolute_url_to_follow, follow_response, why) ==
    IF ~Truthy(follow_response)
    THEN [t EXCEPT !.stop = why]
    ELSE IF follow_response.status \notin RedirectStatus
    THEN [t EXCEPT !.final_location = absolute_url_to_follow, !.stop = "landed"]
    ELSE IF follow_response.location = EmptyStr
    THEN [t EXCEPT !.final_location = absolute_url_to_follow, !.stop = "no_location"]
    ELSE IF LoopContinues(t.count + 1)
    THEN RecordHop(t, follow_response.location, absolute_url_to_follow)
    ELSE [RecordHop(t, follow_response.location, absolute_url_to_follow)
            EXCEPT !.stop = "bound"]

\* Where a tester call stands after a step: it returned res (pc "return"),
\* or it is about to send another request (pc names the request).
Returned(res, t) == [pc |-> "return", t |-> t, res |-> res]

Pending(request, t) == [pc |-> request, t |-> t, res |-> NoResult]

\* After the chain loop: the exploit check on final_location, then the
\* fall through to the non-vulnerable result (the first response was a
\* redirect, so the body checks are skipped).
ParamEvaluate(t) ==
    IF t.final_location # None /\ is_external_redirect(url, t.final_location, t.payload)
    THEN Returned(Result(TRUE, "URL Parameter", t.point, t.payload, t.status_code,
                         t.final_location, t.redirect_chain, t.hdr), t)
    ELSE Returned(NonVulnerableParam(t), t)

\* The script-redirect check on a 200 body.  A candidate that passes
\* validate_redirect and starts with "/" is requested first; for any other
\* accepted candidate the result dict is built at once, and building it
\* calls _determine_severity with two arguments: the TypeError reaches the
\* outer except and test_url_parameter returns None.
ParamScript(t) ==
    LET Candidate(match) ==
            IF t.js # None /\ validate_redirect(t.payload, match, config.callback_url, None)
            THEN IF StartsWithSlash(match)
                 THEN Pending("param_js", [t EXCEPT !.match = match,
                                                    !.pending = FullRedirectUrl(url, match)])
                 ELSE Returned(NoResult, [t EXCEPT !.match = match, !.stop = "TypeError"])
            ELSE Returned(NonVulnerableParam(t), t)
    IN  Candidate(IF t.js = None THEN EmptyStr ELSE Lower(t.js))

\* The checks on a 200 response: meta refresh first.
ParamBody(t, body) ==
    IF body.meta # None
    THEN Pending("param_meta",
                 [t EXCEPT !.redirect_chain = Append(t.redirect_chain, Lower(body.meta)),
                           !.match = Lower(body.meta),
                           !.pending = FullRedirectUrl(url, Lower(body.meta)),
                           !.js = body.js])
    ELSE ParamScript([t EXCEPT !.js = body.js])

\* The step is taken: the tester goes on to its next request, or it
\* returns to the parameter loop of scan_single_url.
ParamStep(step) ==
    IF step.pc = "return"
    THEN ParamReturn(step.res, step.t)
    ELSE /\ pc' = step.pc
         /\ tr' = step.t
         /\ UNCHANGED <<pi, pj, results, url_vulnerable_flag>>

\* test_url_parameter up to the answer to its first request.
ParamRequest ==
    /\ pc = "param"
    /\ \E r \in Responses :
        \E param \in {redirect_params[pi]} :
        \E payload \in {effective_payloads_param[pj]} :
        \E test_url \in {TestUrl(url, param, payload)} :
        \E response \in {make_request(test_url, r)} :
        \E t0 \in {[Locals("test_url_parameter", test_url, param, payload) EXCEPT
                        !.nreq = 1, !.status_code = response.status]} :
        \E t1 \in {[t0 EXCEPT !.redirect_chain = <<response.location>>,
                               !.cur = response.location,
                               !.final_location = response.location,
                               !.base = test_url,
                               !.locs = <<response.location>>]} :
        \E step \in
              {IF ~Truthy(response)
               THEN Returned(NoResult, [t0 EXCEPT !.stop = WhyFalsy(test_url, r)])
               ELSE IF response.status \in RedirectStatus /\ response.location # EmptyStr
               THEN IF LoopContinues(0)
                    THEN Pending("param_follow", t1)
                    ELSE ParamEvaluate([t1 EXCEPT !.stop = "bound"])
               ELSE IF response.status = 200
               THEN ParamBody(t0, response.body)
               ELSE Returned(NonVulnerableParam(t0), t0)} :
            ParamStep(step)
    /\ total_requests' = total_requests + 1
    /\ UNCHANGED <<call, pool, config, url, all_payloads, header_payloads_all, cookie_results>>

\* One iteration of the chain-following loop.
ParamFollow ==
    /\ pc = "param_follow"
    /\ \E r \in Responses :
        \E absolute_url_to_follow \in {urljoin(tr.base, tr.cur)} :
        \E follow_response \in {make_request(absolute_url_to_follow, r)} :
        \E left \in {AfterFollow([tr EXCEPT !.nreq = tr.nreq + 1],
                                 absolute_url_to_follow, follow_response,
                                 WhyFalsy(absolute_url_to_follow, r))} :
        \E step \in {IF left.stop = "none" THEN Pending("param_follow", left)
                     ELSE ParamEvaluate(left)} :
            ParamStep(step)
    /\ total_requests' = total_requests + 1
    /\ UNCHANGED <<call, pool, config, url, all_payloads, header_payloads_all, cookie_results>>

\* The request that verifies a meta refresh candidate.  An accepted
\* candidate makes the result dict call _determine_severity with two
\* arguments; the TypeError is caught at line 238 and the script check
\* follows, as it does for a rejected candidate.
ParamMeta ==
    /\ pc = "param_meta"
    /\ \E r \in Responses :
        \E follow_response \in {make_request(tr.pending, r)} :
        \E accepted \in
              {/\ Truthy(follow_response)
               /\ follow_response.status = 200
               /\ validate_redirect(tr.payload, tr.match, config.callback_url, None)} :
        \E step \in {ParamScript([tr EXCEPT !.nreq = tr.nreq + 1,
                           !.verified = IF Truthy(follow_response) THEN "answered"
                                        ELSE WhyFalsy(tr.pending, r),
                           !.stop = IF accepted THEN "TypeError" ELSE tr.stop])} :
            ParamStep(step)
    /\ total_requests' = total_requests + 1
    /\ UNCHANGED <<call, pool, config, url, all_payloads, header_payloads_all, cookie_results>>

\* The request that verifies a script candidate starting with "/".
ParamJs ==
    /\ pc = "param_js"
    /\ \E r \in Responses :
        \E follow_response \in {make_request(tr.pending, r)} :
        \E t0 \in {[tr EXCEPT !.nreq = tr.nreq + 1,
                             !.verified = IF Truthy(follow_response) THEN "answered"
                                          ELSE WhyFalsy(tr.pending, r)]} :
        \E step \in
              {IF ~Truthy(follow_response) \/ follow_response.status >= 400
               THEN Returned(NonVulnerableParam(t0), t0)
               ELSE Returned(NoResult, [t0 EXCEPT !.stop = "TypeError"])} :
            ParamStep(step)
    /\ total_requests' = total_requests + 1
    /\ UNCHANGED <<call, pool, config, url, all_payloads, header_payloads_all, cookie_results>>

\* ------------------------------------------------------------------------
\* test_header_injection
\* ------------------------------------------------------------------------

\* Next iteration of the header loops.
NextHeader(flag) ==
    IF pj < Len(effective_payloads_header)
    THEN pc' = "header" /\ pi' = pi /\ pj' = pj + 1
    ELSE IF pi < Len(header_names) /\ ~(flag /\ config.fast)
    THEN pc' = "header" /\ pi' = pi + 1 /\ pj' = 1
    ELSE EnterForm

\* The body of the header loop without the return of fast mode.
HeaderReturn_NoFastReturn(result, t) ==
    \E res \in {result} :
    /\ tr' = [t EXCEPT !.ret = res, !.returned = TRUE]
    /\ results' =
          IF res = NoResult THEN results
          ELSE IF res.vulnerable
          THEN Append(results, [res EXCEPT !.severity = SeverityFor(res)])
          ELSE Append(results, res)
    /\ \E flag \in {url_vulnerable_flag \/ (res # NoResult /\ res.vulnerable)} :
        /\ url_vulnerable_flag' = flag
        /\ NextHeader(flag)

\* test_header_injection returned res: the body of the header loop.
HeaderReturn(result, t) ==
    \E res \in {result} :
    /\ tr' = [t EXCEPT !.ret = res, !.returned = TRUE]
    /\ results' =
          IF res = NoResult THEN results
          ELSE IF res.vulnerable
          THEN Append(results, [res EXCEPT !.severity = SeverityFor(res)])
          ELSE Append(results, res)
    /\ \E flag \in {url_vulnerable_flag \/ (res # NoResult /\ res.vulnerable)} :
        /\ url_vulnerable_flag' = flag
        /\ IF res # NoResult /\ res.vulnerable /\ config.fast
           THEN pc' = "done" /\ pi' = pi /\ pj' = pj
           ELSE NextHeader(flag)

\* test_header_injection: one request with the payload in a header.
HeaderRequest ==
    /\ pc = "header"
    /\ \E r \in Responses :
        \E header_name \in {header_names[pi]} :
        \E payload \in {effective_payloads_header[pj]} :
        \E response \in {make_request(url, r)} :
        \E t0 \in {[Locals("test_header_injection", url, header_name, payload) EXCEPT
                        !.nreq = 1, !.status_code = response.status]} :
            IF ~Truthy(response)
            THEN HeaderReturn(NoResult, [t0 EXCEPT !.stop = WhyFalsy(url, r)])
            ELSE IF /\ response.status \in RedirectStatus
                    /\ response.location # EmptyStr
                    /\ validate_redirect(url, response.location, payload,
                                         config.callback_url)
            THEN HeaderReturn(Result(TRUE, "Header Injection", header_name, payload,
                                     response.status, response.location, <<>>, 0),
                              [t0 EXCEPT !.final_location = response.location])
            ELSE HeaderReturn(Result(FALSE, "", header_name, payload, response.status,
                                     IF response.location = EmptyStr THEN None
                                     ELSE response.location, <<>>, 0), t0)
    /\ total_requests' = total_requests + 1
    /\ UNCHANGED <<call, pool, config, url, all_payloads, header_payloads_all, cookie_results>>

\* ------------------------------------------------------------------------
\* test_form_redirects
\* ------------------------------------------------------------------------

\* The fetch of the target that looks for a form.  Without a usable 200
\* page with a "<form" tag the tester returns [] and scan_single_url goes
\* on to test_cookie_redirects.
FormFetch ==
    /\ pc = "form"
    /\ \E r \in Responses :
        \E response \in {make_request(url, r)} :
        \E t0 \in {[Locals("test_form_redirects", url, "", EmptyStr) EXCEPT
                        !.nreq = 1, !.status_code = response.status]} :
            IF ~Truthy(response) \/ response.status # 200 \/ ~response.body.form
            THEN /\ pc' = "cookie"
                 /\ tr' = t0
            ELSE /\ pc' = "form_post"
                 /\ tr' = t0
    /\ pi' = 1
    /\ pj' = 1
    /\ total_requests' = total_requests + 1
    /\ UNCHANGED <<call, pool, config, url, all_payloads, header_payloads_all, results,
                   url_vulnerable_flag, cookie_results>>

\* The first POST attempt: the counter is incremented, then the argument
\* headers=self.headers is evaluated.  OpenRedirectScanner has no attribute
\* headers, neither except clause catches the AttributeError, and it leaves
\* test_form_redirects and scan_single_url.
FormPost ==
    /\ pc = "form_post"
    /\ total_requests' = total_requests + 1
    /\ pc' = "raised"
    /\ tr' = [tr EXCEPT !.point = "redirect_to", !.payload = test_payloads[1],
                        !.stop = "AttributeError"]
    /\ UNCHANGED <<call, pool, config, url, all_payloads, header_payloads_all, pi, pj,
                   results, url_vulnerable_flag, cookie_results>>

\* ------------------------------------------------------------------------
\* test_cookie_redirects
\* ------------------------------------------------------------------------

\* cookie_results with the severity scan_single_url gives each entry.
WithSeverity(lst) ==
    [i \in 1..Len(lst) |->
        CHOOSE item \in {IF lst[i].vulnerable
                         THEN [lst[i] EXCEPT !.severity = SeverityFor(lst[i])]
                         ELSE lst[i]} : TRUE]

\* test_cookie_redirects returns cr; scan_single_url extends results with
\* it and returns.
CookieFinish(lst) ==
    \E cr \in {lst} :
    /\ cookie_results' = cr
    /\ results' = results \o WithSeverity(cr)
    /\ url_vulnerable_flag' =
          (url_vulnerable_flag \/ \E i \in 1..Len(cr) : cr[i].vulnerable)
    /\ pc' = "done"
    /\ pi' = pi
    /\ pj' = pj

\* Next iteration of the cookie loops, the list being cr.
CookieNext(lst) ==
    \E cr \in {lst} :
    IF pj < Len(test_payloads)
    THEN /\ pc' = "cookie" /\ pi' = pi /\ pj' = pj + 1
         /\ cookie_results' = cr
         /\ UNCHANGED <<results, url_vulnerable_flag>>
    ELSE IF pi < Len(cookie_names)
    THEN /\ pc' = "cookie" /\ pi' = pi + 1 /\ pj' = 1
         /\ cookie_results' = cr
         /\ UNCHANGED <<results, url_vulnerable_flag>>
    ELSE CookieFinish(cr)

\* The request with the payload in a cookie.
CookieRequest ==
    /\ pc = "cookie"
    /\ \E r \in Responses :
        \E cookie_name \in {cookie_names[pi]} :
        \E payload \in {test_payloads[pj]} :
        \E response \in {make_request(url, r)} :
        \E t0 \in {[Locals("test_cookie_redirects", url, cookie_name, payload) EXCEPT
                        !.nreq = 1, !.status_code = response.status]} :
            IF ~Truthy(response)
            THEN /\ tr' = [t0 EXCEPT !.stop = WhyFalsy(url, r)]
                 /\ CookieNext(cookie_results)
            ELSE IF response.status \in RedirectStatus /\ response.location # EmptyStr
            THEN /\ tr' = [t0 EXCEPT !.redirect_chain = <<response.location>>,
                                     !.final_location = response.location,
                                     !.cur = response.location,
                                     !.base = url,
                                     !.locs = <<response.location>>]
                 /\ pc' = "cookie_follow"
                 /\ UNCHANGED <<pi, pj, results, url_vulnerable_flag, cookie_results>>
            ELSE /\ tr' = t0
                 /\ CookieNext(cookie_results)
    /\ total_requests' = total_requests + 1
    /\ UNCHANGED <<call, pool, config, url, all_payloads, header_payloads_all>>

\* A cookie attempt that follows the chain up to follow_redirects hops, as
\* test_url_parameter does.
CookieFollow_UpToMaxHops ==
    /\ pc = "cookie_follow"
    /\ \E r \in Responses :
        \E resolved_follow_url \in {urljoin(tr.base, tr.cur)} :
        \E follow_response \in {make_request(resolved_follow_url, r)} :
        \E further \in
              {/\ Truthy(follow_response)
               /\ follow_response.status \in RedirectStatus
               /\ follow_response.location # EmptyStr} :
        \E t0 \in {[tr EXCEPT !.nreq = tr.nreq + 1]} :
        \E t1 \in {IF further
                    THEN [t0 EXCEPT
                            !.redirect_chain = Append(tr.redirect_chain, follow_response.location),
                            !.final_location = follow_response.location,
                            !.cur = follow_response.location,
                            !.base = resolved_follow_url,
                            !.locs = Append(tr.locs, follow_response.location)]
                    ELSE t0} :
        \E res \in {Result(TRUE, "Cookie Redirect", t1.point, t1.payload, t1.status_code,
                            t1.final_location, t1.redirect_chain, 0)} :
            IF further /\ LoopContinues(Len(tr.redirect_chain))
            THEN /\ tr' = t1
                 /\ UNCHANGED <<pc, pi, pj, results, url_vulnerable_flag, cookie_results>>
            ELSE IF validate_redirect(url, t1.final_location, t1.payload, config.callback_url)
            THEN /\ tr' = [t1 EXCEPT !.ret = res]
                 /\ IF config.fast
                    THEN CookieFinish(Append(cookie_results, res))
                    ELSE CookieNext(Append(cookie_results, res))
            ELSE /\ tr' = t1
                 /\ CookieNext(cookie_results)
    /\ total_requests' = total_requests + 1
    /\ UNCHANGED <<call, pool, config, url, all_payloads, header_payloads_all>>

\* The single follow-up request of a cookie attempt and the exploit check.
CookieFollow ==
    /\ pc = "cookie_follow"
    /\ \E r \in Responses :
        \E resolved_follow_url \in {urljoin(tr.base, tr.cur)} :
        \E follow_response \in {make_request(resolved_follow_url, r)} :
        \E further \in
              {/\ Truthy(follow_response)
               /\ follow_response.status \in RedirectStatus
               /\ follow_response.location # EmptyStr} :
        \E t0 \in {[tr EXCEPT !.nreq = tr.nreq + 1]} :
        \E t1 \in {IF further
                    THEN [t0 EXCEPT
                            !.redirect_chain = Append(tr.redirect_chain, follow_response.location),
                            !.final_location = follow_response.location,
                            !.locs = Append(tr.locs, follow_response.location)]
                    ELSE t0} :
        \E res \in {Result(TRUE, "Cookie Redirect", t1.point, t1.payload, t1.status_code,
                            t1.final_location, t1.redirect_chain, 0)} :
            IF validate_redirect(url, t1.final_location, t1.payload, config.callback_url)
            THEN /\ tr' = [t1 EXCEPT !.ret = res]
                 /\ IF config.fast
                    THEN CookieFinish(Append(cookie_results, res))
                    ELSE CookieNext(Append(cookie_results, res))
            ELSE /\ tr' = t1
                 /\ CookieNext(cookie_results)
    /\ total_requests' = total_requests + 1
    /\ UNCHANGED <<call, pool, config, url, all_payloads, header_payloads_all>>

\* ------------------------------------------------------------------------
\* scan_single_url on one target
\* ------------------------------------------------------------------------

\* No pure-function call is being examined.
CallIdle ==
    [fn |-> "none", original |-> EmptyStr, terminal |-> EmptyStr,
     payload |-> EmptyStr, callback |-> None, done |-> TRUE, out |-> FALSE]

Targets == {S_target}

Init ==
    /\ call = CallIdle
    /\ config \in [fast : BOOLEAN, headers_test : BOOLEAN,
                    callback_url : {None, S_cb, S_evilRel80},
                    follow_redirects : 0..MaxHops]
    /\ url \in Targets
    /\ all_payloads \in PayloadLists
    /\ header_payloads_all \in HeaderPayloadLists
    /\ pc = "param"
    /\ pi = 1
    /\ pj = 1
    /\ results = <<>>
    /\ url_vulnerable_flag = FALSE
    /\ cookie_results = <<>>
    /\ total_requests = 0
    /\ tr = NoLocals
    /\ pool = NoPool

Next ==
    \/ ParamRequest
    \/ ParamFollow
    \/ ParamMeta
    \/ ParamJs
    \/ HeaderRequest
    \/ FormFetch
    \/ FormPost
    \/ CookieRequest
    \/ CookieFollow

Spec == Init /\ [][Next]_vars

\* ------------------------------------------------------------------------
\* Workers of the thread pool sharing one scanner
\* ------------------------------------------------------------------------

\* Worker threads, each running scan_single_url on its own target.
NumWorkers == 2

\* Most request attempts one scan makes.
MaxAttempts == 2

\* A worker between two request attempts.
IdleWorker == [pc |-> "idle", kind |-> "none", loaded |-> 0, n |-> 0]

\* Everything but the counter and the pool.
poolIdleVars == <<call, config, url, all_payloads, header_payloads_all, pc, pi, pj,
                  results, url_vulnerable_flag, cookie_results, tr>>

InitWorkers ==
    /\ call = CallIdle
    /\ config = [fast |-> FALSE, headers_test |-> FALSE, callback_url |-> None,
                 follow_redirects |-> 0]
    /\ url = EmptyStr
    /\ all_payloads = <<>>
    /\ header_payloads_all = <<>>
    /\ pc = "pool"
    /\ pi = 0
    /\ pj = 0
    /\ results = <<>>
    /\ url_vulnerable_flag = FALSE
    /\ cookie_results = <<>>
    /\ total_requests = 0
    /\ tr = NoLocals
    /\ pool = [lock |-> 0, attempts |-> 0, worker |-> [w \in 1..NumWorkers |-> IdleWorker]]

\* A worker that enters `with self.results_lock` without waiting for the
\* lock to be free.
Acquire_NoLock(w) ==
    /\ pool.worker[w].pc = "idle"
    /\ pool.worker[w].n < MaxAttempts
    /\ \E kind \in {"make_request", "form_post"} :
          pool' = [pool EXCEPT !.lock = w, !.attempts = pool.attempts + 1,
                               !.worker[w].pc = "locked", !.worker[w].kind = kind]
    /\ UNCHANGED total_requests
    /\ UNCHANGED poolIdleVars

\* Worker w starts a request attempt, in make_request or at the POST of
\* test_form_redirects, and enters `with self.results_lock`, which waits
\* until the lock is free.
Acquire(w) ==
    /\ pool.worker[w].pc = "idle"
    /\ pool.worker[w].n < MaxAttempts
    /\ pool.lock = 0
    /\ \E kind \in {"make_request", "form_post"} :
          pool' = [pool EXCEPT !.lock = w, !.attempts = pool.attempts + 1,
                               !.worker[w].pc = "locked", !.worker[w].kind = kind]
    /\ UNCHANGED total_requests
    /\ UNCHANGED poolIdleVars

\* `self.total_requests += 1`, first half: the value is read.
Load(w) ==
    /\ pool.worker[w].pc = "locked"
    /\ pool' = [pool EXCEPT !.worker[w].pc = "loaded", !.worker[w].loaded = total_requests]
    /\ UNCHANGED total_requests
    /\ UNCHANGED poolIdleVars

\* `self.total_requests += 1`, second half: the sum is stored.
Store(w) ==
    /\ pool.worker[w].pc = "loaded"
    /\ total_requests' = pool.worker[w].loaded + 1
    /\ pool' = [pool EXCEPT !.worker[w].pc = "stored"]
    /\ UNCHANGED poolIdleVars

\* The end of the with block.
Release(w) ==
    /\ pool.worker[w].pc = "stored"
    /\ pool' = [pool EXCEPT !.lock = 0, !.worker[w].pc = "send"]
    /\ UNCHANGED total_requests
    /\ UNCHANGED poolIdleVars

\* The request is sent and answered, or fails.  The POST of
\* test_form_redirects raises AttributeError, which ends the worker's scan;
\* after a make_request the scan goes on or returns.
Send(w) ==
    /\ pool.worker[w].pc = "send"
    /\ \E next \in (IF pool.worker[w].kind = "form_post" THEN {"done"}
                     ELSE {"idle", "done"}) :
          pool' = [pool EXCEPT !.worker[w].pc = next,
                               !.worker[w].n = pool.worker[w].n + 1]
    /\ UNCHANGED total_requests
    /\ UNCHANGED poolIdleVars

NextWorkers ==
    \E w \in 1..NumWorkers :
        \/ Acquire(w)
        \/ Load(w)
        \/ Store(w)
        \/ Release(w)
        \/ Send(w)

SpecWorkers == InitWorkers /\ [][NextWorkers]_vars

\* ------------------------------------------------------------------------
\* Calls of validate_redirect on drawn arguments
\* ------------------------------------------------------------------------

ValidateOriginals == {S_target, S_evilHttp, S_cb}
ValidateTerminals ==
    {S_evilRel, S_evilRel80, S_evilHttp, S_evilUpper, S_evil8080, S_evilBare,
     S_js, S_jsUpper, S_data, S_vbs, S_home, S_siteHome, S_other, S_cb,
     S_blank, EmptyStr, None}
ValidatePayloads  == {S_evilRel, S_evilHttp, S_evil8080, S_evilBare, S_js, S_siteHome}
ValidateCallbacks == {None, EmptyStr, S_cb, S_cbBare, S_evilHttp}

InitValidate ==
    /\ ScanIdle
    /\ call \in [fn : {"validate_redirect"}, original : ValidateOriginals,
              terminal : ValidateTerminals, payload : ValidatePayloads,
              callback : ValidateCallbacks, done : {FALSE}, out : {FALSE}]

\* validate_redirect returns.
Validate ==
    /\ call.fn = "validate_redirect"
    /\ ~call.done
    /\ call' = [call EXCEPT !.done = TRUE,
                            !.out = validate_redirect(call.original, call.terminal,
                                                      call.payload, call.callback)]
    /\ UNCHANGED scanVars

NextValidate == Validate

SpecValidate == InitValidate /\ [][NextValidate]_vars

\* ------------------------------------------------------------------------
\* Calls of _determine_severity on drawn arguments
\* ------------------------------------------------------------------------

SeverityOriginals == {S_target, S_target80, S_home, S_evilHttp, None}
SeverityPayloads  == {S_evilRel, S_evilHttp, S_evil8080, S_js}
SeverityTerminals ==
    {S_js, S_jsUpper, S_data, S_vbs, S_mailto, S_evilRel, S_evilRel80, S_evilHttp,
     S_evilUpper, S_evil8080, S_evilBare, S_evilBadPort, S_home, S_siteHome,
     S_siteUpper, S_target80, S_other, S_noNetloc, S_blank, EmptyStr, None}

InitSeverity ==
    /\ ScanIdle
    /\ call \in [fn : {"_determine_severity"}, original : SeverityOriginals,
              terminal : SeverityTerminals, payload : SeverityPayloads,
              callback : {None}, done : {FALSE}, out : {""}]

\* _determine_severity returns, or raises (out is then the exception).
Classify ==
    /\ call.fn = "_determine_severity"
    /\ ~call.done
    /\ call' = [call EXCEPT !.done = TRUE,
                            !.out = determine_severity(call.original, call.payload,
                                                       call.terminal)]
    /\ UNCHANGED scanVars

NextSeverity == Classify

SpecSeverity == InitSeverity /\ [][NextSeverity]_vars

\* ------------------------------------------------------------------------
\* Calls of get_normalized_hostname_util on drawn arguments
\* ------------------------------------------------------------------------

\* URLs with and without a scheme, a port and a path.
NormalizeUrls ==
    {scheme \o <<"//", host>> \o explicit_port \o path :
        scheme \in {<<>>, <<"http", ":">>, <<"https", ":">>},
        host \in {"example.com", "Example.com"},
        explicit_port \in {<<>>, <<":">>} \cup {<<":", digits>> : digits \in DigitWords},
        path \in {<<>>, <<"/x">>}}

NormalizeInputs ==
    NormalizeUrls \cup {S_js, S_mailto, S_evilBare, S_home, S_evilBadPort, EmptyStr, None}

InitNormalize ==
    /\ ScanIdle
    /\ call \in [fn : {"get_normalized_hostname_util"}, url_str : NormalizeInputs,
              done : {FALSE}, out : {None}, again : {FALSE}, out_again : {None}]

\* get_normalized_hostname_util(url_str) returns.
Normalize ==
    /\ call.fn = "get_normalized_hostname_util"
    /\ ~call.done
    /\ call' = [call EXCEPT !.done = TRUE,
                            !.out = get_normalized_hostname_util(call.url_str)]
    /\ UNCHANGED scanVars

\* The function is called once more, on what it returned.
NormalizeAgain ==
    /\ call.fn = "get_normalized_hostname_util"
    /\ call.done
    /\ ~call.again
    /\ call' = [call EXCEPT !.again = TRUE,
                            !.out_again = get_normalized_hostname_util(call.out)]
    /\ UNCHANGED scanVars

NextNormalize ==
    \/ Normalize
    \/ NormalizeAgain

SpecNormalize == InitNormalize /\ [][NextNormalize]_vars

\* ------------------------------------------------------------------------
\* One call of test_url_parameter against a server that redirects
\* ------------------------------------------------------------------------

\* Locations the redirecting server may send: scheme-relative, relative to
\* the host of the URL that was requested, and absolute.
ChainLocations == {S_evilRel, <<"/x">>, S_home, S_other}

ChainResponses ==
    {Timeout}
    \cup {Response("none", 404, EmptyStr, NoBody), Response("none", 200, EmptyStr, NoBody)}
    \cup {Response("none", 302, l, NoBody) : l \in ChainLocations \cup {EmptyStr}}

\* test_url_parameter(url, param, payload) is called; test_url is built.
InitChain ==
    /\ call = CallIdle
    /\ config \in [fast : {FALSE}, headers_test : {FALSE}, callback_url : {None},
                    follow_redirects : 0..MaxHops]
    /\ url \in Targets
    /\ all_payloads = <<>>
    /\ header_payloads_all = <<>>
    /\ pc = "chain"
    /\ pi = 0
    /\ pj = 0
    /\ results = <<>>
    /\ url_vulnerable_flag = FALSE
    /\ cookie_results = <<>>
    /\ total_requests = 0
    /\ tr \in {Locals("test_url_parameter", TestUrl(url, "next", payload), "next", payload) :
                 payload \in {S_evilRel, S_other}}
    /\ pool = NoPool

\* The step is taken: the call goes on to its next request, or it returns.
ChainStep(step) ==
    IF step.pc = "return"
    THEN /\ pc' = "done"
         /\ tr' = [step.t EXCEPT !.ret = step.res, !.returned = TRUE]
    ELSE /\ pc' = "chain_follow"
         /\ tr' = step.t

\* The injected request and what follows its answer (pending is the URL
\* that was requested).
ChainRequest ==
    /\ pc = "chain"
    /\ \E r \in ChainResponses :
        \E response \in {make_request(tr.test_url, r)} :
        \E t0 \in {[tr EXCEPT !.nreq = 1, !.status_code = response.status,
                              !.pending = tr.test_url]} :
        \E t1 \in {[t0 EXCEPT !.redirect_chain = <<response.location>>,
                               !.cur = response.location,
                               !.final_location = response.location,
                               !.base = tr.test_url,
                               !.locs = <<response.location>>]} :
        \E step \in
              {IF ~Truthy(response)
               THEN Returned(NoResult, [t0 EXCEPT !.stop = WhyFalsy(tr.test_url, r)])
               ELSE IF response.status \in RedirectStatus /\ response.location # EmptyStr
               THEN IF LoopContinues(0)
                    THEN Pending("param_follow", t1)
                    ELSE ParamEvaluate([t1 EXCEPT !.stop = "bound"])
               ELSE IF response.status = 200
               THEN ParamBody(t0, response.body)
               ELSE Returned(NonVulnerableParam(t0), t0)} :
            ChainStep(step)
    /\ total_requests' = total_requests + 1
    /\ UNCHANGED <<call, pool, config, url, all_payloads, header_payloads_all, pi, pj,
                   results, url_vulnerable_flag, cookie_results>>

\* One iteration of the chain-following loop (pending is the URL that was
\* requested).
ChainFollow ==
    /\ pc = "chain_follow"
    /\ \E r \in ChainResponses :
        \E absolute_url_to_follow \in {urljoin(tr.base, tr.cur)} :
        \E follow_response \in {make_request(absolute_url_to_follow, r)} :
        \E left \in {AfterFollow([tr EXCEPT !.nreq = tr.nreq + 1,
                                            !.pending = absolute_url_to_follow],
                                 absolute_url_to_follow, follow_response,
                                 WhyFalsy(absolute_url_to_follow, r))} :
        \E step \in {IF left.stop = "none" THEN Pending("param_follow", left)
                     ELSE ParamEvaluate(left)} :
            ChainStep(step)
    /\ total_requests' = total_requests + 1
    /\ UNCHANGED <<call, pool, config, url, all_payloads, header_payloads_all, pi, pj,
                   results, url_vulnerable_flag, cookie_results>>

NextChain ==
    \/ ChainRequest
    \/ ChainFollow

SpecChain == InitChain /\ [][NextChain]_vars

\* ------------------------------------------------------------------------
\* Calls of _is_external_redirect on drawn arguments, and the exploit check
\* of test_url_parameter on the same terminal
\* ------------------------------------------------------------------------

S_jsHost        == <<"javascript", ":", "//", "evil.com">>
S_targetBadPort == <<"http", ":", "//", "site.test", ":", "abc", "/login">>

InitExploit ==
    /\ config = [fast |-> FALSE, headers_test |-> FALSE, callback_url |-> None,
                 follow_redirects |-> 0]
    /\ url \in {S_target, S_target80, S_evilHttp, S_targetBadPort}
    /\ call \in [fn : {"_is_external_redirect"}, original : {url},
              terminal : {S_evilRel, S_evilRel80, S_evilHttp, S_evilUpper, S_evil8080,
                          S_evilBare, S_evilBadPort, S_js, S_jsUpper, S_data, S_vbs,
                          S_jsHost, S_home, S_siteHome, S_other, S_blank, EmptyStr, None},
              payload : {S_evilRel, S_evilHttp, S_evil8080, S_evilBare, S_evilBadPort,
                         S_js, S_jsHost, S_siteHome},
              callback : {None}, done : {FALSE}, out : {FALSE}]
    /\ all_payloads = <<>>
    /\ header_payloads_all = <<>>
    /\ pc = "idle"
    /\ pi = 0
    /\ pj = 0
    /\ results = <<>>
    /\ url_vulnerable_flag = FALSE
    /\ cookie_results = <<>>
    /\ total_requests = 0
    /\ tr = NoLocals
    /\ pool = NoPool

\* _is_external_redirect returns.
IsExternal ==
    /\ call.fn = "_is_external_redirect"
    /\ ~call.done
    /\ call' = [call EXCEPT !.done = TRUE,
                            !.out = is_external_redirect(call.original, call.terminal,
                                                         call.payload)]
    /\ UNCHANGED scanVars

\* The end of a call of test_url_parameter for the same target and payload
\* whose injected request was answered by a redirect to the terminal,
\* follow_redirects being 0: the exploit check and the result.
Evaluate ==
    /\ call.fn = "_is_external_redirect"
    /\ tr = NoLocals
    /\ Requestable(url) /\ ~PortRaises(urlparse(url))
    /\ ~Falsy(call.terminal)
    /\ \E t \in {[Locals("test_url_parameter", TestUrl(url, "next", call.payload),
                         "next", call.payload) EXCEPT
                        !.nreq = 1, !.status_code = 302,
                        !.redirect_chain = <<call.terminal>>,
                        !.cur = call.terminal,
                        !.final_location = call.terminal,
                        !.locs = <<call.terminal>>,
                        !.stop = "bound"]} :
        \E step \in {ParamEvaluate(t)} :
            tr' = [step.t EXCEPT !.ret = step.res, !.returned = TRUE]
    /\ total_requests' = total_requests + 1
    /\ UNCHANGED <<call, pool, config, url, all_payloads, header_payloads_all, pc, pi, pj,
                   results, url_vulnerable_flag, cookie_results>>

NextExploit ==
    \/ IsExternal
    \/ Evaluate

SpecExploit == InitExploit /\ [][NextExploit]_vars

\* ------------------------------------------------------------------------
\* Calls of extract_redirect_params on drawn targets, and the choice of
\* redirect_params scan_single_url makes from what it returns
\* ------------------------------------------------------------------------

\* Targets with up to two query parameters, with names inside and outside
\* the vocabulary, in either letter case, and with blank values; the empty
\* string and a target urlparse does not parse.
ExtractUrls ==
    LET Pairs == {<<name, "=">> \o value :
                    name \in {"next", "Next", "returnUrl", "url", "id", "q"},
                    value \in {<<>>, <<"/home">>}}
        Queries == {<<>>} \cup {<<"?">> \o a : a \in Pairs}
                          \cup {<<"?">> \o a \o <<"&">> \o b : a, b \in Pairs}
    IN  {<<"http", ":", "//", "site.test", "/login">> \o query : query \in Queries}
        \cup {EmptyStr,
              <<"http", ":", "//", "[", "::1", "/login", "?", "next", "=", "/home">>}

InitExtract ==
    /\ config = [fast |-> FALSE, headers_test |-> FALSE, callback_url |-> None,
                 follow_redirects |-> 0]
    /\ url \in ExtractUrls
    /\ call = [fn |-> "extract_redirect_params", url_str |-> url, done |-> FALSE,
               out |-> <<>>, chosen |-> FALSE, params |-> <<>>]
    /\ all_payloads = <<>>
    /\ header_payloads_all = <<>>
    /\ pc = "idle"
    /\ pi = 0
    /\ pj = 0
    /\ results = <<>>
    /\ url_vulnerable_flag = FALSE
    /\ cookie_results = <<>>
    /\ total_requests = 0
    /\ tr = NoLocals
    /\ pool = NoPool

\* extract_redirect_params(url) returns.
Extract ==
    /\ call.fn = "extract_redirect_params"
    /\ ~call.done
    /\ call' = [call EXCEPT !.done = TRUE, !.out = extract_redirect_params(call.url_str)]
    /\ UNCHANGED scanVars

\* scan_single_url replaces an empty list by its own list of 40 names.
ChooseParams ==
    /\ call.fn = "extract_redirect_params"
    /\ call.done
    /\ ~call.chosen
    /\ call' = [call EXCEPT !.chosen = TRUE, !.params = redirect_params]
    /\ UNCHANGED scanVars

NextExtract ==
    \/ Extract
    \/ ChooseParams

SpecExtract == InitExtract /\ [][NextExtract]_vars

\* ------------------------------------------------------------------------
\* Properties of validate_redirect (under SpecValidate)
\* ------------------------------------------------------------------------

\* A finished call of validate_redirect.
Validated == call.fn = "validate_redirect" /\ call.done

\* The normalized hosts of the arguments of the call.
HostOfOriginal == get_normalized_hostname_util(call.original)
HostOfTerminal == get_normalized_hostname_util(call.terminal)
HostOfPayload  == get_normalized_hostname_util(call.payload)
HostOfCallback == get_normalized_hostname_util(call.callback)

\* C2: with no callback host and a terminal that is not a script/data URI,
\* validate_redirect returns true exactly when terminal and payload both
\* have a normalized host, the two hosts are equal, and that host differs
\* from the original's normalized host.
C2_ValidatorHostRule ==
    (Validated /\ Falsy(call.callback) /\ ~StartsWithScriptScheme(call.terminal))
        => (call.out <=> /\ HostOfTerminal # None
                         /\ HostOfPayload # None
                         /\ HostOfTerminal = HostOfPayload
                         /\ HostOfTerminal # HostOfOriginal)

\* C2 witness: the self-match case; terminal, payload and original share a
\* host and the call returned false.
C2_Witness ==
    /\ Validated
    /\ Falsy(call.callback)
    /\ HostOfTerminal # None
    /\ HostOfTerminal = HostOfPayload
    /\ HostOfTerminal = HostOfOriginal
    /\ ~call.out

\* C3: validate_redirect returns true whenever the terminal begins with
\* javascript:, data: or vbscript: in any letter case, for every original,
\* payload and callback.
C3_ScriptUriAnyCase ==
    (Validated /\ call.terminal # None /\ StartsWithScriptScheme(Lower(call.terminal)))
        => call.out

\* C5: with a callback host configured and a terminal that is not a
\* script/data URI, validate_redirect returns true exactly when the
\* terminal's normalized host equals the callback's normalized host and
\* differs from the original's normalized host.
C5_CallbackExclusive ==
    (Validated /\ ~Falsy(call.callback) /\ ~StartsWithScriptScheme(call.terminal))
        => (call.out <=> /\ HostOfTerminal # None
                         /\ HostOfTerminal = HostOfCallback
                         /\ HostOfTerminal # HostOfOriginal)

\* C5 witness: the terminal has the payload's host, which is neither the
\* callback's nor the original's, and the call returned false.
C5_Witness ==
    /\ Validated
    /\ ~Falsy(call.callback)
    /\ HostOfTerminal # None
    /\ HostOfTerminal = HostOfPayload
    /\ HostOfTerminal # HostOfCallback
    /\ HostOfTerminal # HostOfOriginal
    /\ ~call.out

\* ------------------------------------------------------------------------
\* Properties of scan_single_url (under Spec)
\* ------------------------------------------------------------------------

\* A call of test_url_parameter has returned and no later request was made.
ParamCallReturned == tr.fn = "test_url_parameter" /\ tr.returned

\* The Finding scan_single_url appended last.
LastFinding == results[Len(results)]

\* Some Finding of results is vulnerable.
AnyVulnerable == \E i \in 1..Len(results) : results[i].vulnerable

\* The first response of the call was a redirect whose Location has the
\* payload's normalized host, which is not the target's, and the only
\* follow-up request (if one was made) was answered by a page, an HTTP
\* error, a timeout or a connection error.
C1_Case ==
    /\ ParamCallReturned
    /\ Len(tr.locs) = 1
    /\ tr.stop \in {"bound", "landed", "status", "timeout", "connection"}
    /\ get_normalized_hostname_util(tr.locs[1]) # None
    /\ get_normalized_hostname_util(tr.locs[1]) = get_normalized_hostname_util(tr.payload)
    /\ get_normalized_hostname_util(tr.locs[1]) # get_normalized_hostname_util(url)

\* C1: when the injected request is answered by a redirect whose Location
\* has the payload's normalized host, different from the target's,
\* scan_single_url records a Finding with vulnerable=true, a terminal whose
\* normalized host is the payload's and severity High, whatever the
\* follow-up request returns.
C1_ReflectedRedirectIsFinding ==
    C1_Case => /\ tr.ret.vulnerable
               /\ get_normalized_hostname_util(tr.ret.final_location)
                    = get_normalized_hostname_util(tr.payload)
               /\ results # <<>>
               /\ LastFinding = [tr.ret EXCEPT !.severity = "High"]

\* C4: every vulnerable Finding of scan_single_url passes validate_redirect
\* on the target, its terminal location, its payload and the configured
\* callback host.
C4_VulnerableImpliesValidator ==
    \A i \in 1..Len(results) :
        results[i].vulnerable =>
            validate_redirect(url, results[i].final_location, results[i].payload,
                              config.callback_url)

\* A call of test_url_parameter whose first response was a redirect: the
\* chain-following loop is, or was, at work.
C6_Case == tr.fn = "test_url_parameter" /\ tr.status_code \in RedirectStatus

C7_Case ==
    /\ ParamCallReturned
    /\ tr.stop = "bound"
    /\ Len(tr.locs) = config.follow_redirects + 1

C8_FastModeEarlyExit ==
    (config.fast /\ (AnyVulnerable \/ \E i \in 1..Len(cookie_results) :
                                        cookie_results[i].vulnerable))
        => /\ pc = "done"
           /\ AnyVulnerable
           /\ LastFinding.vulnerable
           /\ \A i \in 1..(Len(results) - 1) : ~results[i].vulnerable

\* C8 witness: fast mode, the parameter tester produced a vulnerable Finding
\* with its first request answered and scan_single_url returned.
C8_Witness ==
    /\ config.fast
    /\ pc = "done"
    /\ ParamCallReturned
    /\ tr.ret.vulnerable
    /\ LastFinding.vulnerable

\* A follow-up request of the chain-following loop failed at the transport
\* layer.
C9_Case ==
    /\ ParamCallReturned
    /\ tr.stop \in {"timeout", "connection"}
    /\ tr.locs # <<>>

C10_ScanNeverRaises == pc # "raised"

\* The place of a tester in the order of scan_single_url.
TesterRank(fn) ==
    CASE fn = "none" -> 0
      [] fn = "test_url_parameter" -> 1
      [] fn = "test_header_injection" -> 2
      [] fn = "test_form_redirects" -> 3
      [] fn = "test_cookie_redirects" -> 4

\* C11: within one scan_single_url, every request is made by a tester that
\* is not earlier in the order URL-parameter, header, form, cookie than
\* the tester of the request before it, and the header tester makes a
\* request only when header testing is enabled.
C11_TesterOrder ==
    [][total_requests' # total_requests =>
          /\ TesterRank(tr'.fn) >= TesterRank(tr.fn)
          /\ (tr'.fn = "test_header_injection" => config.headers_test)]_vars

\* C11 witness: scan_single_url returned after the cookie tester, and the
\* results hold one of the parameter tester before one of the header tester.
C11_Witness ==
    /\ pc = "done"
    /\ tr.fn = "test_cookie_redirects"
    /\ config.headers_test
    /\ \E i, j \in 1..Len(results) :
          /\ i < j
          /\ results[i].point = redirect_params[1]
          /\ results[j].point = header_names[1]

\* The severities _determine_severity can return.
Severities == {"High", "Medium", "Low"}

\* C12: in the results of scan_single_url every Finding with vulnerable=true
\* carries a severity that is one of High, Medium, Low, and every result
\* with vulnerable=false carries no severity.
C12_SeverityOfResults ==
    \A i \in 1..Len(results) :
        IF results[i].vulnerable
        THEN results[i].severity \in Severities
        ELSE results[i].severity = "absent"

\* C12 witness: scan_single_url returned a list that holds a result that is
\* not vulnerable, a Finding of severity High and one of severity Medium.
C12_Witness ==
    /\ pc = "done"
    /\ \E i, j, k \in 1..Len(results) :
          /\ ~results[i].vulnerable
          /\ results[j].vulnerable /\ results[j].severity = "High"
          /\ results[k].vulnerable /\ results[k].severity = "Medium"

\* ------------------------------------------------------------------------
\* Properties of _determine_severity (under SpecSeverity)
\* ------------------------------------------------------------------------

\* A finished call of _determine_severity.
Classified == call.fn = "_determine_severity" /\ call.done

\* C13: _determine_severity returns High for every original and payload
\* whenever the terminal starts with javascript:, data: or vbscript:.
C13_ScriptUriIsHigh ==
    (Classified /\ call.terminal # None /\ StartsWithScriptScheme(call.terminal))
        => call.out = "High"

\* C13 witness: a data: terminal classified High for an original without a
\* host and a payload whose host the terminal does not have.
C13_Witness ==
    /\ Classified
    /\ call.terminal = S_data
    /\ call.original = S_home
    /\ call.payload = S_evilHttp
    /\ call.out = "High"

\* s.startswith(('http://', 'https://', '//'))
StartsWithHttp(s) ==
    \/ StartsWith(s, <<"http", ":", "//">>)
    \/ StartsWith(s, <<"https", ":", "//">>)
    \/ StartsWith(s, <<"//">>)

\* A finished call whose terminal is no script URI and is not confirmed by
\* validate_redirect (without callback) as a redirect to the payload's host.
C14_Case ==
    /\ Classified
    /\ call.terminal # None
    /\ ~StartsWithScriptScheme(call.terminal)
    /\ ~validate_redirect(call.original, call.terminal, call.payload, None)

\* C14: for such a terminal starting with http://, https:// or //,
\* _determine_severity returns Medium when the normalized hosts of original
\* and terminal are both present and different, Low when both are present
\* and equal, Medium when only the terminal has one and Low when neither
\* has one; a terminal with any other start gives Low.
C14_MediumLowRule ==
    C14_Case =>
        IF StartsWithHttp(call.terminal)
        THEN /\ (HostOfOriginal # None /\ HostOfTerminal # None /\ HostOfOriginal # HostOfTerminal)
                    => call.out = "Medium"
             /\ (HostOfOriginal # None /\ HostOfTerminal # None /\ HostOfOriginal = HostOfTerminal)
                    => call.out = "Low"
             /\ (HostOfOriginal = None /\ HostOfTerminal # None) => call.out = "Medium"
             /\ (HostOfOriginal = None /\ HostOfTerminal = None) => call.out = "Low"
        ELSE call.out = "Low"

\* C15: _determine_severity does not raise and returns one of High, Medium,
\* Low for every original, payload and terminal, an absent terminal
\* included.
C15_ClassifierTotal == Classified => call.out \in Severities

\* ------------------------------------------------------------------------
\* Properties of get_normalized_hostname_util (under SpecNormalize)
\* ------------------------------------------------------------------------

\* A finished call of get_normalized_hostname_util.
Normalized == call.fn = "get_normalized_hostname_util" /\ call.done

\* What the rules of the claim give for a parsed URL whose port, if any,
\* is a number: the lowercased host, followed by ":" and the port when
\* there is an explicit port other than 80 for http and 443 for https.
RuleOfNormalize(p) ==
    IF hostname(p) = None THEN None
    ELSE IF \/ (p.scheme = <<"http">> /\ PortPart(p.netloc) = <<"80">>)
            \/ (p.scheme = <<"https">> /\ PortPart(p.netloc) = <<"443">>)
    THEN hostname(p)
    ELSE IF PortPart(p.netloc) # <<>> THEN hostname(p) \o <<":">> \o PortPart(p.netloc)
    ELSE hostname(p)

\* C16: normalize lowercases the host, returns the bare host for http with
\* port 80 and https with port 443, host:port for any other explicit port,
\* the bare host when no port is given and NoHost when no host parses; so
\* http://Example.com:80/x and http://example.com/x normalize alike, as do
\* https://example.com:443 and https://example.com, while
\* https://example.com:8443 and https://example.com do not.
C16_NormalizeRules ==
    /\ (Normalized /\ ~Falsy(call.url_str) /\ ~PortRaises(urlparse(call.url_str)))
            => call.out = RuleOfNormalize(urlparse(call.url_str))
    /\ get_normalized_hostname_util(<<"http", ":", "//", "Example.com", ":", "80", "/x">>)
            = get_normalized_hostname_util(<<"http", ":", "//", "example.com", "/x">>)
    /\ get_normalized_hostname_util(<<"https", ":", "//", "example.com", ":", "443">>)
            = get_normalized_hostname_util(<<"https", ":", "//", "example.com">>)
    /\ get_normalized_hostname_util(<<"https", ":", "//", "example.com", ":", "8443">>)
            # get_normalized_hostname_util(<<"https", ":", "//", "example.com">>)

\* C17: for every string that has a host, normalizing the normalized host
\* again gives the normalized host.
C17_NormalizeIdempotent ==
    (Normalized /\ call.again /\ call.out # None) => call.out_again = call.out

\* ------------------------------------------------------------------------
\* Properties of the request counter (under SpecWorkers)
\* ------------------------------------------------------------------------

\* Worker w has left `with self.results_lock` for the attempt it started.
Counted(w) == pool.worker[w].pc \in {"send", "idle", "done"}

\* Request attempts whose increment is complete.
RECURSIVE CountedAttempts(_)
CountedAttempts(w) ==
    IF w = 0 THEN 0
    ELSE CountedAttempts(w - 1) + pool.worker[w].n
            + (IF pool.worker[w].pc = "send" THEN 1 ELSE 0)

\* C18: a worker is between the read and the end of the with block only
\* while it holds results_lock, every request attempt that has left the
\* with block has incremented total_requests exactly once, and once every
\* worker is outside the with block total_requests is the number of
\* request attempts.
C18_CounterAtomic ==
    /\ \A w \in 1..NumWorkers : ~Counted(w) => pool.lock = w
    /\ (pool.lock = 0) => /\ total_requests = CountedAttempts(NumWorkers)
                          /\ total_requests = pool.attempts

\* C18 witness: every worker has finished, each after the most attempts,
\* one of them with a POST of the form tester.
C18_Witness ==
    /\ \A w \in 1..NumWorkers : pool.worker[w].pc = "done" /\ pool.worker[w].n = MaxAttempts
    /\ \E w \in 1..NumWorkers : pool.worker[w].kind = "form_post"
    /\ total_requests = NumWorkers * MaxAttempts

\* ------------------------------------------------------------------------
\* More properties of scan_single_url (under Spec)
\* ------------------------------------------------------------------------

\* C19: in every vulnerable Finding with a redirect chain the reported
\* response headers are those of the last redirecting response, the one
\* whose Location is the last entry of the chain (entry k of the chain is
\* the Location of response k - 1 of the attempt).
C19_EvidenceHeaders ==
    \A i \in 1..Len(results) :
        (results[i].vulnerable /\ results[i].redirect_chain # <<>>)
            => results[i].response_headers = Len(results[i].redirect_chain) - 1

\* A call of test_url_parameter whose injected request was answered 200
\* with a meta refresh tag, no callback host being configured: the url of
\* the tag has the payload's normalized host, which is not the target's
\* (validate_redirect accepts it for the target and the payload), and the
\* request that verifies it has been made.
C20_Case ==
    /\ ParamCallReturned
    /\ config.callback_url = None
    /\ tr.status_code = 200
    /\ tr.redirect_chain # <<>>
    /\ tr.verified # "none"
    /\ validate_redirect(url, tr.redirect_chain[1], tr.payload, None)

\* C20: in that case test_url_parameter returns a vulnerable Finding with
\* method "Meta Refresh" when the verification request did not fail, and
\* no Meta Refresh Finding when it failed.
C20_MetaRefreshFinding ==
    C20_Case =>
        ((tr.ret.vulnerable /\ tr.ret.method = "Meta Refresh") <=> tr.verified = "answered")

\* A call of test_url_parameter whose injected request was answered 200
\* with a body in which a script-redirect pattern captures a target, no
\* meta refresh tag and no callback host being present: validate_redirect
\* accepts the captured target for the scanned URL and the payload.
C21_Case ==
    /\ ParamCallReturned
    /\ config.callback_url = None
    /\ tr.status_code = 200
    /\ tr.redirect_chain = <<>>
    /\ tr.js # None
    /\ validate_redirect(url, Lower(tr.js), tr.payload, None)

\* C21: in that case test_url_parameter returns a vulnerable Finding with
\* method "JavaScript Redirect" whose location is the captured target, and
\* a call whose first response is an HTTP-level redirect makes no meta or
\* script check.
C21_ScriptRedirectFinding ==
    /\ C21_Case => /\ tr.ret.vulnerable
                   /\ tr.ret.method = "JavaScript Redirect"
                   /\ tr.ret.final_location = Lower(tr.js)
    /\ (tr.fn = "test_url_parameter" /\ tr.status_code \in RedirectStatus)
            => (tr.match = EmptyStr /\ tr.verified = "none")

\* C22: test_form_redirects first fetches the target once; when the fetch
\* fails, is not answered 200 or shows no form tag it issues no POST and
\* returns no Finding (scan_single_url goes on to the cookie tester after
\* that one request); otherwise it goes on to the POSTs after that one
\* fetch, issues them and returns its list of Findings.
C22_FormProtocol ==
    tr.fn = "test_form_redirects" =>
        /\ (pc = "cookie" => (tr.nreq = 1 /\ cookie_results = <<>>))
        /\ (pc = "form_post" => (tr.nreq = 1 /\ tr.status_code = 200))
        /\ pc \in {"cookie", "form_post", "done"}

\* Entries of the list scan_single_url is building, those the cookie
\* tester holds before it returns included.
C23_Entries == Len(results) + (IF pc = "done" THEN 0 ELSE Len(cookie_results))

\* The step ends an attempt (tester, injection point, payload) of the
\* URL-parameter, header or cookie tester in non-fast mode.
C23_AttemptEnds ==
    /\ ~config.fast
    /\ total_requests' # total_requests
    /\ \/ tr'.fn = "test_url_parameter" /\ tr'.returned
       \/ tr'.fn = "test_header_injection"
       \/ tr'.fn = "test_cookie_redirects" /\ pc' # "cookie_follow"

\* C23: in non-fast mode every attempt whose request was answered without
\* an error adds exactly one entry to the list scan_single_url returns,
\* vulnerable or not, and an attempt whose request failed adds none.
C23_OneEntryPerAttempt ==
    [][C23_AttemptEnds =>
          C23_Entries' = C23_Entries + (IF tr'.status_code \in 1..399 THEN 1 ELSE 0)]_vars

\* ------------------------------------------------------------------------
\* Properties of the chain followed by test_url_parameter (under SpecChain)
\* ------------------------------------------------------------------------

\* The URL of hop k by the rule of resolution: hop 0 is the injected
\* request, hop k the Location received at hop k - 1 joined to the URL of
\* hop k - 1.
RECURSIVE C24_HopUrl(_)
C24_HopUrl(k) ==
    IF k = 0 THEN tr.test_url ELSE urljoin(C24_HopUrl(k - 1), tr.locs[k])

\* A URL with a scheme and a host.
C24_Absolute(u) == urlparse(u).scheme # <<>> /\ urlparse(u).netloc # <<>>

\* C24: the URL test_url_parameter requested last, at hop k, is the
\* Location received at hop k - 1 resolved against the URL requested at hop
\* k - 1, and it is that Location itself when the Location is absolute.
C24_ResolutionBase ==
    (tr.fn = "test_url_parameter" /\ tr.nreq >= 2) =>
        /\ tr.pending = C24_HopUrl(tr.nreq - 1)
        /\ C24_Absolute(tr.locs[tr.nreq - 1]) => tr.pending = tr.locs[tr.nreq - 1]

\* C24 witness: the third request went to /x on the host of the second
\* request, which is not the host of the target, and the call returned.
C24_Witness ==
    /\ tr.fn = "test_url_parameter"
    /\ tr.returned
    /\ tr.nreq = 3
    /\ tr.locs[1] = S_evilRel
    /\ tr.locs[2] = <<"/x">>
    /\ tr.pending = <<"http", ":", "//", "evil.com", "/x">>

\* ------------------------------------------------------------------------
\* More properties of scan_single_url (under Spec)
\* ------------------------------------------------------------------------

\* C25: whatever follow_redirects is and whatever the server answers, an
\* attempt of the form or cookie tester makes at most one request after
\* its first one, and the redirect chain of each of their Findings has at
\* most 2 entries.
C25_FormCookieTwoHops ==
    /\ tr.fn \in {"test_form_redirects", "test_cookie_redirects"}
            => (tr.nreq <= 2 /\ Len(tr.redirect_chain) <= 2)
    /\ \A i \in 1..Len(cookie_results) : Len(cookie_results[i].redirect_chain) <= 2
    /\ \A i \in 1..Len(results) :
          results[i].method \in {"Form POST Redirect", "Cookie Redirect"}
              => Len(results[i].redirect_chain) <= 2

\* C25 witness: follow_redirects is 2 or more, the one follow-up request of
\* a cookie attempt was answered by another redirect, and the attempt ended
\* there with a Finding whose chain has 2 entries.
C25_Witness ==
    /\ config.follow_redirects >= 2
    /\ tr.fn = "test_cookie_redirects"
    /\ pc # "cookie_follow"
    /\ tr.nreq = 2
    /\ tr.ret.vulnerable
    /\ Len(tr.ret.redirect_chain) = 2

\* ------------------------------------------------------------------------
\* Properties of _is_external_redirect (under SpecExploit)
\* ------------------------------------------------------------------------

\* A finished call of _is_external_redirect whose terminal has no
\* surrounding whitespace.
C26_Case ==
    /\ call.fn = "_is_external_redirect"
    /\ call.done
    /\ Strip(call.terminal) = call.terminal

C27_ValidatedIsHigh ==
    (Classified /\ validate_redirect(call.original, call.terminal, call.payload, None))
        => call.out = "High"

\* ------------------------------------------------------------------------
\* More properties of the chain followed by test_url_parameter (under
\* SpecChain)
\* ------------------------------------------------------------------------

\* C28: whatever the server answers, a redirect cycle included, a call of
\* test_url_parameter has made at most 1 + max_hops requests, and it has
\* returned once it has made that many (every step of the call is one
\* request, so the call ends within 1 + max_hops steps).
C28_BoundedRequests ==
    tr.fn = "test_url_parameter" =>
        /\ tr.nreq <= 1 + config.follow_redirects
        /\ total_requests = tr.nreq
        /\ tr.nreq = 1 + config.follow_redirects => tr.returned

\* C28 witness: the server redirects in a cycle, /x to /home and /home to
\* /x; with max_hops 2 the call returned after its third request.
C28_Witness ==
    /\ tr.fn = "test_url_parameter"
    /\ config.follow_redirects = 2
    /\ tr.locs = <<(<<"/x">>), S_home, (<<"/x">>)>>
    /\ tr.nreq = 3
    /\ tr.stop = "bound"
    /\ tr.returned

\* ------------------------------------------------------------------------
\* Properties of the list scan_single_url returns (under Spec)
\* ------------------------------------------------------------------------

\* C29: in fast mode the list scan_single_url returns holds at most one
\* Finding with vulnerable=true, and that Finding is its last element.
C29_FastListEndsWithFinding ==
    (config.fast /\ pc = "done") =>
        \A i \in 1..Len(results) : results[i].vulnerable => i = Len(results)

\* C29 witness: a fast scan returned a list of several results whose last
\* element is a Finding of the cookie tester, the parameter tester having
\* contributed a result that is not vulnerable.
C29_Witness ==
    /\ config.fast
    /\ pc = "done"
    /\ Len(results) >= 2
    /\ results[1].method = ""
    /\ ~results[1].vulnerable
    /\ LastFinding.vulnerable
    /\ LastFinding.method = "Cookie Redirect"

\* ------------------------------------------------------------------------
\* Properties of extract_redirect_params (under SpecExtract)
\* ------------------------------------------------------------------------

\* The names of the vocabulary, lowercased.
C30_Vocabulary ==
    {LowerName(common_redirect_params[i]) : i \in 1..Len(common_redirect_params)}

\* C30: extract_redirect_params never returns an empty list: it returns
\* names of query parameters of the target that are in the vocabulary, or
\* the first 10 names of the vocabulary; the list scan_single_url tests is
\* the returned one, not its own list of 40 names, and it has a name.
C30_ExtractNeverEmpty ==
    /\ (call.fn = "extract_redirect_params" /\ call.done) =>
          /\ call.out # <<>>
          /\ UrlparseRaises(call.url_str) => call.out = SubSeq(common_redirect_params, 1, 10)
          /\ \/ call.out = SubSeq(common_redirect_params, 1, 10)
             \/ \A i \in 1..Len(call.out) :
                   /\ LowerName(call.out[i]) \in C30_Vocabulary
                   /\ Find(urlparse(call.url_str).query, call.out[i]) # 0
    /\ (call.fn = "extract_redirect_params" /\ call.chosen) =>
          /\ call.params = call.out
          /\ Len(call.params) >= 1

\* C30 witness: a target whose only query parameters are outside the
\* vocabulary or have a blank value; the first 10 names of the vocabulary
\* were returned and scan_single_url tests those.
C30_Witness ==
    /\ call.fn = "extract_redirect_params"
    /\ call.chosen
    /\ call.url_str = <<"http", ":", "//", "site.test", "/login", "?", "id", "=", "/home",
                        "&", "next", "=">>
    /\ call.params = SubSeq(common_redirect_params, 1, 10)

====
